---------------------------- MODULE Spec2Model ----------------------------
(***************************************************************************)
(* A model of anozman/fantasy_stats: the schema registry built by          *)
(* get_table_metadata / get_table_metadata_for_positions, the row          *)
(* normalizer scrape_gamelog with its scoring function calc_fantasy, the   *)
(* per-player unit scrape_player, and the two entry points: the sequential *)
(* loop of fantasy_data_scrape.py and main of scrape_parallel.py with its  *)
(* multiprocessing pool.                                                   *)
(*                                                                         *)
(* Texts (header labels, cell texts, canonical names) are strings; Python  *)
(* values are records [t, n, s] (see V_Int .. V_None).  Tooltips, player   *)
(* display names and URLs are carried by the code unchanged and read by no *)
(* branch; tooltips are left out and names/URLs are place holders.         *)
(***************************************************************************)
EXTENDS Integers, Sequences, FiniteSets, TLC

VARIABLES
    pc,            \* position of the entry point's main flow
    error,         \* the uncaught exception that ended the run, or "none"
    metadata_map,  \* the registry returned by seeding: (cat, col) -> unique
    schema_log,    \* lines of data/table_metadata.txt
    year,          \* loop variable of the year loop of the entry point
    players,       \* sequential loop: players of the current year not yet visited
    discovered,    \* every tuple get_players_for_year has returned so far
    all_players,   \* parallel main: the task list; in the pool, the tasks not yet taken
    seen_players,  \* per process: the module-level set seen_players
    unit,          \* per process: the scrape_player call in progress
    files,         \* data/<pid>.json: pid -> persisted record
    writes,        \* pid -> number of times data/<pid>.json was written
    table,         \* scrape_gamelog under test: the fetched document
    year_data      \* scrape_gamelog under test: its return value

vars == <<pc, error, metadata_map, schema_log, year, players, discovered,
          all_players, seen_players, unit, files, writes, table, year_data>>

---------------------------------------------------------------------------
(* Bounds of the model.                                                    *)

\* data columns (besides the rank column) of a generated header row
MaxCols == 2
\* integer cell texts are "0" .. MaxInt
MaxInt == 1
\* positions for which seeding finds a sample game log (the code looks for 4)
MaxFound == 2
\* data columns of a sampled game log drawn by seeding
MaxSeedCols == 2
\* years of the configured range that the model runs over
MaxYears == 2
\* players listed on one year's rankings page
MaxListed == 2
\* tasks handed to the pool
MaxTasks == 3
\* worker processes of the pool (the code: min(cpu_count(), 8))
MaxWorkers == 2

START_YEAR == 2010
\* 2024 in the source; the model covers the first MaxYears years of the range
END_YEAR == START_YEAR + MaxYears - 1

---------------------------------------------------------------------------
(* Python values and dictionaries.                                         *)

V_Int(k)   == [t |-> "int",   n |-> k, s |-> ""]
\* a float, held exactly in thousandths
V_Float(m) == [t |-> "float", n |-> m, s |-> ""]
V_Str(x)   == [t |-> "str",   n |-> 0, s |-> x]
V_None     == [t |-> "none",  n |-> 0, s |-> ""]

\* bool(v)
Truthy(v) ==
    CASE v.t = "none"  -> FALSE
      [] v.t = "int"   -> v.n # 0
      [] v.t = "float" -> v.n # 0
      [] v.t = "str"   -> v.s # ""

\* a or b
PyOr(a, b) == IF Truthy(a) THEN a ELSE b

EmptyDict == [k \in {} |-> V_None]

\* d[k] = v
Put(d, k, v) == [x \in (DOMAIN d) \cup {k} |-> IF x = k THEN v ELSE d[x]]

\* d.get(k, default)
Get(d, k, default) == IF k \in DOMAIN d THEN d[k] ELSE default

\* d.update(e)
Update(d, e) == [x \in (DOMAIN d) \cup (DOMAIN e) |-> IF x \in DOMAIN e THEN e[x] ELSE d[x]]

Min(a, b) == IF a < b THEN a ELSE b

---------------------------------------------------------------------------
(* Text functions: str.isdigit, str.lower, str.strip("_"), int(), float(). *)
(* The alphabet is ASCII; int() and float() are modelled for an optional   *)
(* sign followed by decimal digits, with one "." for float().              *)

Char(s, i) == SubSeq(s, i, i)

Digits == {"0", "1", "2", "3", "4", "5", "6", "7", "8", "9"}

DigitVal(c) ==
    CASE c = "0" -> 0 [] c = "1" -> 1 [] c = "2" -> 2 [] c = "3" -> 3
      [] c = "4" -> 4 [] c = "5" -> 5 [] c = "6" -> 6 [] c = "7" -> 7
      [] c = "8" -> 8 [] c = "9" -> 9

\* s.isdigit()
IsDigit(s) == Len(s) > 0 /\ \A i \in 1..Len(s) : Char(s, i) \in Digits

\* "." in s
HasDot(s) == \E i \in 1..Len(s) : Char(s, i) = "."

RECURSIVE NatOf(_)
\* the number a non-empty digit string denotes
NatOf(s) ==
    IF Len(s) = 0 THEN 0
    ELSE 10 * NatOf(SubSeq(s, 1, Len(s) - 1)) + DigitVal(Char(s, Len(s)))

Unsigned(s) ==
    IF Len(s) > 0 /\ Char(s, 1) \in {"-", "+"} THEN SubSeq(s, 2, Len(s)) ELSE s

Sign(s) == IF Len(s) > 0 /\ Char(s, 1) = "-" THEN -1 ELSE 1

\* int(s) does not raise ValueError
IntParses(s) == IsDigit(Unsigned(s))

IntOf(s) == Sign(s) * NatOf(Unsigned(s))

DotAt(s) == CHOOSE i \in 1..Len(s) : Char(s, i) = "."

\* float(s) does not raise ValueError: [sign] digits "." digits, a digit on one side
FloatParses(s) ==
    LET u == Unsigned(s) IN
    /\ Cardinality({i \in 1..Len(u) : Char(u, i) = "."}) = 1
    /\ LET d == DotAt(u)
           ip == SubSeq(u, 1, d - 1)
           fp == SubSeq(u, d + 1, Len(u))
       IN /\ ip = "" \/ IsDigit(ip)
          /\ fp = "" \/ IsDigit(fp)
          /\ ip # "" \/ fp # ""
          /\ Len(fp) <= 3

\* float(s) in thousandths (texts carry at most three decimals)
FloatOf(s) ==
    LET u == Unsigned(s)
        d == DotAt(u)
        ip == SubSeq(u, 1, d - 1)
        fp == SubSeq(u, d + 1, Len(u))
        scale == CASE Len(fp) = 0 -> 1000 [] Len(fp) = 1 -> 100
                   [] Len(fp) = 2 -> 10 [] OTHER -> 1
    IN Sign(s) * (1000 * NatOf(ip) + scale * NatOf(fp))

LowerChar(c) ==
    CASE c = "A" -> "a" [] c = "B" -> "b" [] c = "C" -> "c" [] c = "D" -> "d"
      [] c = "E" -> "e" [] c = "F" -> "f" [] c = "G" -> "g" [] c = "H" -> "h"
      [] c = "I" -> "i" [] c = "J" -> "j" [] c = "K" -> "k" [] c = "L" -> "l"
      [] c = "M" -> "m" [] c = "N" -> "n" [] c = "O" -> "o" [] c = "P" -> "p"
      [] c = "Q" -> "q" [] c = "R" -> "r" [] c = "S" -> "s" [] c = "T" -> "t"
      [] c = "U" -> "u" [] c = "V" -> "v" [] c = "W" -> "w" [] c = "X" -> "x"
      [] c = "Y" -> "y" [] c = "Z" -> "z" [] OTHER -> c

RECURSIVE Lower(_)
\* s.lower()
Lower(s) == IF Len(s) = 0 THEN "" ELSE LowerChar(Char(s, 1)) \o Lower(SubSeq(s, 2, Len(s)))

RECURSIVE StripUnderscores(_)
\* s.strip("_")
StripUnderscores(s) ==
    IF Len(s) > 0 /\ Char(s, 1) = "_" THEN StripUnderscores(SubSeq(s, 2, Len(s)))
    ELSE IF Len(s) > 0 /\ Char(s, Len(s)) = "_" THEN StripUnderscores(SubSeq(s, 1, Len(s) - 1))
    ELSE s

\* str(v).isdigit() for a value v
StrIsDigit(v) ==
    CASE v.t = "int"   -> v.n >= 0
      [] v.t = "float" -> FALSE
      [] v.t = "str"   -> IsDigit(v.s)
      [] v.t = "none"  -> FALSE

\* int(v) for a value v with StrIsDigit(v)
PyInt(v) == IF v.t = "str" THEN NatOf(v.s) ELSE v.n

---------------------------------------------------------------------------
(* Documents.  A stats table is [top, bottom, body]: top is the category   *)
(* row (cells with a label and a colspan), bottom the column row (cells    *)
(* with a label and whether data-stat is "ranker"), body the rows of       *)
(* tbody (whether the row has class thead, and its cell texts).  NoTable   *)
(* is a page without <table id="stats">.                                   *)

NoTable == [top |-> <<>>, bottom |-> <<>>, body |-> <<>>, missing |-> TRUE]

Table(top, bottom, body) == [top |-> top, bottom |-> bottom, body |-> body, missing |-> FALSE]

RECURSIVE Repeat(_, _)
\* [label] * n
Repeat(label, n) == IF n <= 0 THEN <<>> ELSE <<label>> \o Repeat(label, n - 1)

RECURSIVE Expand(_)
\* the per-column category list: each top cell contributes colspan copies of its label
Expand(top) ==
    IF top = <<>> THEN <<>>
    ELSE Repeat(top[1].label, top[1].colspan) \o Expand(Tail(top))

\* cat_map[i] if i < len(cat_map) else ""   (i counted from 1 here)
CatAt(cat_map, i) == IF i <= Len(cat_map) THEN cat_map[i] ELSE ""

---------------------------------------------------------------------------
(* get_table_metadata: (category, column) -> unique name.                  *)

\* f"{cat[:2].lower()}{base}"
Prefixed(cat, base) == Lower(SubSeq(cat, 1, Min(2, Len(cat)))) \o base

\* the unique name given to column base under cat, name_count holding the bases seen
UniqueName(cat, base, name_count) ==
    IF base \in name_count THEN Prefixed(cat, base) ELSE base

RECURSIVE MetaFold(_, _, _, _, _)
\* the loop over zip(categories, headers, tips); name_count is kept as the set of its keys
MetaFold(cat_map, bottom, i, name_count, meta) ==
    IF i > Len(bottom) THEN meta
    ELSE LET col == bottom[i].col
             cat == CatAt(cat_map, i)
         IN MetaFold(cat_map, bottom, i + 1, name_count \cup {col},
                     Put(meta, <<cat, col>>, UniqueName(cat, col, name_count)))

get_table_metadata(doc) ==
    IF doc.missing THEN EmptyDict
    ELSE MetaFold(Expand(doc.top), doc.bottom, 1, {}, EmptyDict)

RECURSIVE KeyOrder(_, _, _)
\* the keys of meta in insertion order (the order of meta.items())
KeyOrder(cat_map, bottom, i) ==
    IF i > Len(bottom) THEN <<>>
    ELSE LET key == <<CatAt(cat_map, i), bottom[i].col>>
             rest == KeyOrder(cat_map, bottom, i + 1)
             earlier == {<<CatAt(cat_map, j), bottom[j].col>> : j \in 1..(i - 1)}
         IN IF key \in earlier THEN rest ELSE <<key>> \o rest

\* a line "cat,col:unique | tip" of the schema log
LogLine(cat, col, unique) == [cat |-> cat, col |-> col, unique |-> unique]

\* the lines written for meta.items()
MetaLines(doc) ==
    IF doc.missing THEN <<>>
    ELSE LET keys == KeyOrder(Expand(doc.top), doc.bottom, 1)
             meta == get_table_metadata(doc)
         IN [i \in 1..Len(keys) |-> LogLine(keys[i][1], keys[i][2], meta[keys[i]])]

RECURSIVE MergeFound(_)
\* merged = {}; for m in found.values(): merged.update(m)
MergeFound(found) ==
    IF found = <<>> THEN EmptyDict
    ELSE Update(get_table_metadata(found[1]), MergeFound(Tail(found)))

---------------------------------------------------------------------------
(* calc_fantasy.  Values are exact: numbers in thousandths before          *)
(* rounding, hundredths after round(x, 2).  The cell texts of the model    *)
(* carry at most one decimal, so every quotient below is exact.            *)

\* g(key): stats.get(key, 0) if it is an int or a float, else 0; in thousandths
StatMilli(stats, key) ==
    LET val == Get(stats, key, V_Int(0))
    IN CASE val.t = "int"   -> 1000 * val.n
         [] val.t = "float" -> val.n
         [] OTHER           -> 0

\* round(x, 2) of x given in thousandths, in hundredths (ties to even)
Round2(x) ==
    LET q == x \div 10
        r == x % 10
    IN IF r < 5 THEN q
       ELSE IF r > 5 THEN q + 1
       ELSE IF q % 2 = 0 THEN q ELSE q + 1

\* std, in thousandths, from the ten inputs in thousandths
StdMilli(pass_yds, pass_td, ints, rush_yds, rush_td, rec_yds, rec_td, two_pt, fumbles_lost) ==
    (pass_yds \div 25) + (pass_td * 4) - (ints * 2)
    + (rush_yds \div 10) + (rush_td * 6)
    + (rec_yds \div 10) + (rec_td * 6)
    + (two_pt * 2) - (fumbles_lost * 2)

calc_fantasy(stats) ==
    LET std == StdMilli(StatMilli(stats, "Pass Yds"), StatMilli(stats, "Pass TD"),
                        StatMilli(stats, "Int"), StatMilli(stats, "Rush Yds"),
                        StatMilli(stats, "Rush TD"), StatMilli(stats, "Rec Yds"),
                        StatMilli(stats, "Rec TD"), StatMilli(stats, "2PM"),
                        StatMilli(stats, "Fumbles Lost"))
        rec == StatMilli(stats, "Rec")
        half == std + (rec \div 2)
        ppr == std + rec
    IN [standard |-> Round2(std), half_ppr |-> Round2(half), ppr |-> Round2(ppr)]

---------------------------------------------------------------------------
(* scrape_gamelog.                                                         *)

RECURSIVE ColPairs(_, _, _)
\* col_pairs: the (cat, col) of every bottom cell that is not the rank column
ColPairs(over_headers, bottom, idx) ==
    IF idx > Len(bottom) THEN <<>>
    ELSE IF bottom[idx].ranker THEN ColPairs(over_headers, bottom, idx + 1)
    ELSE <<<<CatAt(over_headers, idx), bottom[idx].col>>>>
         \o ColPairs(over_headers, bottom, idx + 1)

\* f"{cat}_{col}".strip("_")
Fallback(cat, col) == StripUnderscores(cat \o "_" \o col)

\* headers: the registry's unique name, or the fallback for an unknown pair
Headers(col_pairs, map) ==
    [i \in 1..Len(col_pairs) |->
        IF col_pairs[i] \in DOMAIN map THEN map[col_pairs[i]]
        ELSE Fallback(col_pairs[i][1], col_pairs[i][2])]

\* the lines appended to the schema log: one per unknown pair, in column order
Appended(col_pairs, map) ==
    LET unknown == SelectSeq(col_pairs, LAMBDA key : key \notin DOMAIN map)
    IN [i \in 1..Len(unknown) |->
           LogLine(unknown[i][1], unknown[i][2], Fallback(unknown[i][1], unknown[i][2]))]

\* float(val) if "." in val else int(val); the text itself on ValueError
Coerce(val) ==
    IF HasDot(val)
    THEN IF FloatParses(val) THEN V_Float(FloatOf(val)) ELSE V_Str(val)
    ELSE IF IntParses(val) THEN V_Int(IntOf(val)) ELSE V_Str(val)

RECURSIVE RowData(_, _, _, _)
\* game_data after the loop over cells[1:]; cells beyond the headers are ignored
RowData(cells, headers, i, game_data) ==
    IF i > Len(cells) - 1 THEN game_data
    ELSE IF i > Len(headers) THEN RowData(cells, headers, i + 1, game_data)
    ELSE RowData(cells, headers, i + 1, Put(game_data, headers[i], Coerce(cells[i + 1])))

\* FillMissing without its loop: the row's own cells only
FillMissing_Skipped(game_data, map) == game_data

\* every unique name of the registry that the row did not set becomes 0
FillMissing(game_data, map) ==
    LET uniq == {map[k] : k \in DOMAIN map}
    IN [h \in (DOMAIN game_data) \cup uniq |->
           IF h \in DOMAIN game_data THEN game_data[h] ELSE V_Int(0)]

\* the row is skipped before any cell is read
RowSkipped(row) == row.thead \/ row.cells = <<>> \/ ~IsDigit(row.cells[1])

\* WeekRejected without the test "not week_val": a week of 0 passes
WeekRejected_DigitsOnly(game_data) == ~StrIsDigit(Get(game_data, "Week", V_None))

\* the row is dropped for its week
WeekRejected(game_data) ==
    LET week_val == Get(game_data, "Week", V_None)
    IN ~Truthy(week_val) \/ ~StrIsDigit(week_val)

\* the game dictionary of a row that passed both filters
Game(game_data) ==
    [week     |-> PyInt(game_data["Week"]),
     date     |-> Get(game_data, "Date", V_Str("")),
     team     |-> PyOr(PyOr(Get(game_data, "Tm", V_None), Get(game_data, "Team", V_None)),
                       V_Str("")),
     opponent |-> Get(game_data, "Opp", V_Str("")),
     home     |-> Get(game_data, "game_location", V_Str("")) # V_Str("@"),
     stats    |-> game_data,
     fantasy  |-> calc_fantasy(game_data)]

\* the filled game_data of a row that was not skipped
GameData(row, headers, map) == FillMissing(RowData(row.cells, headers, 1, EmptyDict), map)

\* what a body row contributes to games: nothing, or its game dictionary
\* (game_data is bound through a one-element set so that it is computed once)
RowGames(row, headers, map) ==
    IF RowSkipped(row) THEN <<>>
    ELSE CHOOSE out \in {IF WeekRejected(game_data) THEN <<>> ELSE <<Game(game_data)>> :
                            game_data \in {GameData(row, headers, map)}} : TRUE

RECURSIVE Games(_, _, _)
\* the loop over table.tbody rows
Games(body, headers, map) ==
    IF body = <<>> THEN <<>>
    ELSE RowGames(body[1], headers, map) \o Games(Tail(body), headers, map)

\* the return value of scrape_gamelog (found = FALSE: None) and the lines it appends
scrape_gamelog(doc, map) ==
    IF doc.missing THEN [found |-> FALSE, games |-> <<>>, appended |-> <<>>]
    ELSE LET col_pairs == ColPairs(Expand(doc.top), doc.bottom, 1)
             headers == Headers(col_pairs, map)
         IN [found |-> TRUE,
             games |-> Games(doc.body, headers, map),
             appended |-> Appended(col_pairs, map)]

---------------------------------------------------------------------------
(* The documents the model draws.  A header is generated from a sequence   *)
(* of (category, column) pairs: the rank column first, under the empty     *)
(* category, and one top cell per run of equal categories, its colspan the *)
(* length of the run.                                                      *)

WeekP   == <<"", "Week">>
DateP   == <<"", "Date">>
PassYds == <<"Passing", "Yds">>
RushYds == <<"Rushing", "Yds">>

RECURSIVE RunLength(_, _, _)
\* the top row of a category list from index i on: equal neighbours share the
\* cell [label, colspan] being grown
RunLength(cats, i, cell) ==
    IF i > Len(cats) THEN <<cell>>
    ELSE IF cats[i] = cell.label
         THEN RunLength(cats, i + 1, [cell EXCEPT !.colspan = @ + 1])
         ELSE <<cell>> \o RunLength(cats, i + 1, [label |-> cats[i], colspan |-> 1])

\* the rank column opens the first cell, under the empty category
HeaderTop(pairs) ==
    RunLength([i \in 1..Len(pairs) |-> pairs[i][1]], 1, [label |-> "", colspan |-> 1])

HeaderBottom(pairs) ==
    <<[col |-> "Rk", ranker |-> TRUE]>>
    \o [i \in 1..Len(pairs) |-> [col |-> pairs[i][2], ranker |-> FALSE]]

Doc(pairs, body) == Table(HeaderTop(pairs), HeaderBottom(pairs), body)

\* the sequences over S of length 0 .. n
SeqsUpTo(S, n) == UNION {[1..k -> S] : k \in 0..n}

RECURSIVE NatText(_)
\* the decimal text of a natural number
NatText(n) ==
    LET d == <<"0", "1", "2", "3", "4", "5", "6", "7", "8", "9">>
    IN IF n < 10 THEN d[n + 1] ELSE NatText(n \div 10) \o d[(n % 10) + 1]

IntTexts == {NatText(n) : n \in 0..MaxInt}

\* cell texts: empty, a word, a negative integer, a decimal, and the integers
CellTexts == {"", "x", "-1", "1.5"} \cup IntTexts

\* first cells: a row number, or the text of a separator row
FirstCells == {"1", "x"}

GamelogPairs == {WeekP, DateP, PassYds}

GamelogLayouts == SeqsUpTo(GamelogPairs, MaxCols)

\* the rows with exactly one cell per column
RowsFor(n) ==
    {[thead |-> FALSE, cells |-> <<f>> \o c] : f \in FirstCells, c \in [1..n -> CellTexts]}

\* an embedded sub-header row of the body
TheadRow == [thead |-> TRUE, cells |-> <<"Rk", "Week">>]

\* the row without its last cell, and the row with one cell too many
Short(r) == [r EXCEPT !.cells = SubSeq(r.cells, 1, Len(r.cells) - 1)]
Long(r)  == [r EXCEPT !.cells = r.cells \o <<"1">>]

\* the bodies built around row r
BodiesOf(r) == {<<r>>, <<Short(r)>>, <<TheadRow, r, Long(r)>>}

\* game logs of a quarterback and of a running back, as sampled by seeding
QBSample == Doc(<<WeekP, DateP, PassYds, RushYds>>, <<>>)
RBSample == Doc(<<WeekP, RushYds>>, <<>>)

\* found.values() of seeding runs: the sampled game logs, in the order found
SeedSamples == {<<QBSample>>, <<RBSample>>, <<QBSample, RBSample>>}

---------------------------------------------------------------------------
(* Seeding: get_table_metadata_for_positions.  found is found.values():    *)
(* the sampled game logs in the order their positions were met.            *)

\* the uncaught exception ends the process
Abort(cause) == pc' = "Aborted" /\ error' = cause

\* the rest of the run's state, untouched by seeding
SeedFrame ==
    UNCHANGED <<year, players, discovered, all_players, seen_players, unit,
                files, writes, table, year_data>>

\* seeding returns merged, having rewritten the schema log from the meta of the
\* last position sampled (line 133 reads meta, not merged)
SeedFinds(found) ==
    /\ pc = "Seeding"
    /\ found # <<>>
    /\ metadata_map' = MergeFound(found)
    /\ schema_log' = MetaLines(found[Len(found)])
    /\ pc' = "Discovering"
    /\ error' = error
    /\ SeedFrame

\* no position was sampled: the log is truncated and meta is unbound at line 133
SeedFindsNone ==
    /\ pc = "Seeding"
    /\ schema_log' = <<>>
    /\ Abort("seeding")
    /\ UNCHANGED metadata_map
    /\ SeedFrame

\* the rankings page has no fantasy table: {} is returned, nothing is written
SeedNoTable ==
    /\ pc = "Seeding"
    /\ metadata_map' = EmptyDict
    /\ pc' = "Discovering"
    /\ UNCHANGED <<error, schema_log>>
    /\ SeedFrame

\* a fetch_soup of seeding raises
SeedFetchFails ==
    /\ pc = "Seeding"
    /\ Abort("seeding")
    /\ UNCHANGED <<metadata_map, schema_log>>
    /\ SeedFrame

---------------------------------------------------------------------------
(* scrape_player, step by step, in process p: the main process of the      *)
(* sequential entry point, or a worker process of the pool.                *)

Pids == {"p1", "p2"}

\* what get_players_for_year appends for a player: (player_id, player_name, player_link)
Listed(pid) == <<pid, "name", "link">>

\* the rankings pages: sequences of listed players
PlayerLists == SeqsUpTo({Listed(pid) : pid \in Pids}, MaxListed)

\* the years of the game-log links of a profile page, in or out of the range
LinkYears == (START_YEAR - 1)..END_YEAR

RECURSIVE Sorted(_)
\* sorted(S) for a set of integers
Sorted(S) ==
    IF S = {} THEN <<>>
    ELSE LET m == CHOOSE x \in S : \A y \in S : x <= y
         IN <<m>> \o Sorted(S \ {m})

\* the keys of year_links: the link years within START_YEAR .. END_YEAR, ascending
YearLinks(link_years) == Sorted({y \in link_years : y >= START_YEAR /\ y <= END_YEAR})

\* the game logs a unit fetches: known columns only, or with a column no sample had
KnownLog == Doc(<<WeekP>>, <<[thead |-> FALSE, cells |-> <<"1", "1">>]>>)
NewHeaderLog == Doc(<<WeekP, <<"Snaps", "Num">>>>, <<[thead |-> FALSE, cells |-> <<"1", "1", "1">>]>>)
UnitLogs == {KnownLog, NewHeaderLog}

Idle == [st |-> "idle", id |-> "", links |-> <<>>, years |-> EmptyDict]

\* data = {"name": ..., "id": ..., "years": ...}
PlayerData(u) == [id |-> u.id, years |-> u.years]

\* json.dump(pdata, f) into data/<pid>.json
Persist(pid, pdata) ==
    /\ files' = Put(files, pid, pdata)
    /\ writes' = [writes EXCEPT ![pid] = @ + 1]

\* process p is not inside a unit: it never began one, finished the last one,
\* or left it through scrape_wrapper's handler
Free(p) == unit[p].st \in {"idle", "failed"}

\* an exception leaves scrape_player in process p with the unit as u: the
\* sequential loop has no handler and the run ends; scrape_wrapper catches it,
\* reports the failure and returns None
Raise(p, u) ==
    /\ unit' = [unit EXCEPT ![p] = [u EXCEPT !.st = "failed"]]
    /\ IF p = "main" THEN Abort("unit") ELSE UNCHANGED <<pc, error>>

\* lines 168-169: the identifier is in this process's seen_players: None is returned
UnitSeen(p, pid) ==
    /\ pid \in seen_players[p]
    /\ unit' = [unit EXCEPT ![p] = Idle]
    /\ UNCHANGED <<pc, error, seen_players, files, writes, schema_log>>

\* lines 170-173: marked seen, then the fetch of the profile page raises
UnitProfileFails(p, pid) ==
    /\ pid \notin seen_players[p]
    /\ seen_players' = [seen_players EXCEPT ![p] = @ \cup {pid}]
    /\ Raise(p, [Idle EXCEPT !.id = pid])
    /\ UNCHANGED <<files, writes, schema_log>>

\* lines 175-188: no nav, no game-log section or no list: data is returned with
\* no years, and the caller persists it
UnitNoLinks(p, pid) ==
    /\ pid \notin seen_players[p]
    /\ seen_players' = [seen_players EXCEPT ![p] = @ \cup {pid}]
    /\ Persist(pid, [id |-> pid, years |-> EmptyDict])
    /\ unit' = [unit EXCEPT ![p] = Idle]
    /\ UNCHANGED <<pc, error, schema_log>>

\* lines 190-201: the profile lists game logs for link_years
UnitLinks(p, pid, link_years) ==
    /\ pid \notin seen_players[p]
    /\ seen_players' = [seen_players EXCEPT ![p] = @ \cup {pid}]
    /\ unit' = [unit EXCEPT ![p] =
                   [st |-> "years", id |-> pid, links |-> YearLinks(link_years),
                    years |-> EmptyDict]]
    /\ UNCHANGED <<pc, error, files, writes, schema_log>>

\* line 206: the fetch of the next year's game log raises
UnitYearFails(p) ==
    /\ unit[p].st = "years"
    /\ unit[p].links # <<>>
    /\ Raise(p, unit[p])
    /\ UNCHANGED <<seen_players, files, writes, schema_log>>

\* lines 206-208: scrape_gamelog on the next year's page; a page without a
\* stats table gives None and the year is left out
UnitYear(p, doc) ==
    /\ unit[p].st = "years"
    /\ unit[p].links # <<>>
    /\ \E r \in {scrape_gamelog(doc, metadata_map)} :
          /\ schema_log' = schema_log \o r.appended
          /\ unit' = [unit EXCEPT ![p] =
                [@ EXCEPT !.links = Tail(@),
                          !.years = IF r.found
                                    THEN Put(@, unit[p].links[1], [games |-> r.games])
                                    ELSE @]]
    /\ UNCHANGED <<pc, error, seen_players, files, writes>>

\* line 211 and the caller: data is returned and persisted
UnitFinish(p) ==
    /\ unit[p].st = "years"
    /\ unit[p].links = <<>>
    /\ Persist(unit[p].id, PlayerData(unit[p]))
    /\ unit' = [unit EXCEPT ![p] = Idle]
    /\ UNCHANGED <<pc, error, seen_players, schema_log>>

---------------------------------------------------------------------------
(* The sequential entry point: fantasy_data_scrape.py run as a script.     *)

SeqFrame == UNCHANGED <<metadata_map, all_players, table, year_data>>

\* the state before the first statement of an entry point run by process set P
Start(P) ==
    /\ pc = "Seeding"
    /\ error = "none"
    /\ metadata_map = EmptyDict
    /\ schema_log = <<>>
    /\ year = START_YEAR
    /\ players = <<>>
    /\ discovered = <<>>
    /\ all_players = <<>>
    /\ seen_players = [p \in P |-> {}]
    /\ unit = [p \in P |-> Idle]
    /\ files = EmptyDict
    /\ writes = [pid \in Pids |-> 0]
    /\ table = NoTable
    /\ year_data = [found |-> FALSE, games |-> <<>>]

InitSeq == Start({"main"})

SeqSeed == \E found \in SeedSamples : SeedFinds(found)

\* the loop over the years may go on: no list is being walked, no unit is open
SeqAtYear == pc = "Discovering" /\ players = <<>> /\ Free("main")

\* line 338: get_players_for_year(year) returns the year's list
SeqListPlayers ==
    /\ SeqAtYear
    /\ year <= END_YEAR
    /\ \E list \in PlayerLists :
          /\ players' = list
          /\ discovered' = discovered \o list
    /\ year' = year + 1
    /\ UNCHANGED <<pc, error, schema_log, seen_players, unit, files, writes>>
    /\ SeqFrame

\* line 338: get_players_for_year(year) raises (fetch failure, or no fantasy table)
SeqListFails ==
    /\ SeqAtYear
    /\ year <= END_YEAR
    /\ Abort("listing")
    /\ UNCHANGED <<schema_log, year, players, discovered, seen_players, unit, files, writes>>
    /\ SeqFrame

\* the year loop is exhausted: the script ends
SeqDone ==
    /\ SeqAtYear
    /\ year > END_YEAR
    /\ pc' = "Done"
    /\ UNCHANGED <<error, schema_log, year, players, discovered, seen_players, unit,
                   files, writes>>
    /\ SeqFrame

\* the next player of the list may be visited
SeqAtPlayer == pc = "Discovering" /\ players # <<>> /\ Free("main")

SeqPop == players' = Tail(players) /\ UNCHANGED <<year, discovered>> /\ SeqFrame

\* lines 339-340: the player was seen: continue
SeqSkipSeen == SeqAtPlayer /\ UnitSeen("main", players[1][1]) /\ SeqPop

SeqProfileFails == SeqAtPlayer /\ UnitProfileFails("main", players[1][1]) /\ SeqPop

SeqNoLinks == SeqAtPlayer /\ UnitNoLinks("main", players[1][1]) /\ SeqPop

SeqLinks ==
    /\ SeqAtPlayer
    /\ \E link_years \in SUBSET LinkYears : UnitLinks("main", players[1][1], link_years)
    /\ SeqPop

SeqUnitFrame == pc = "Discovering" /\ UNCHANGED <<year, players, discovered>> /\ SeqFrame

SeqYearFails == SeqUnitFrame /\ UnitYearFails("main")

SeqYear == SeqUnitFrame /\ \E doc \in UnitLogs \cup {NoTable} : UnitYear("main", doc)

SeqFinish == SeqUnitFrame /\ UnitFinish("main")

NextSeq ==
    \/ SeqSeed \/ SeedFindsNone \/ SeedNoTable \/ SeedFetchFails
    \/ SeqListPlayers \/ SeqListFails \/ SeqDone
    \/ SeqSkipSeen \/ SeqProfileFails \/ SeqNoLinks \/ SeqLinks
    \/ SeqYearFails \/ SeqYear \/ SeqFinish

SpecSeq == InitSeq /\ [][NextSeq]_vars

---------------------------------------------------------------------------
(* The parallel entry point: main of scrape_parallel.py.                   *)

\* the worker processes of the pool
Workers == {"w" \o NatText(i) : i \in 1..MaxWorkers}

\* the sampled game logs that seeding draws
SeedPairs == {WeekP, PassYds, RushYds}
SeedLogs == {NoTable} \cup {Doc(l, <<>>) : l \in SeqsUpTo(SeedPairs, MaxSeedCols)}

InitPar == Start({"main"})

ParSeed == \E found \in SeqsUpTo(SeedLogs, MaxFound) : SeedFinds(found)

\* the element of all_players that line 44 appends for a tuple it could unpack
Task(t) == <<t[1], t[2], t[4], "metadata_map">>

\* "for pid, name, _, url in players" unpacks each tuple into four names
Unpacks(t) == Len(t) = 4

\* the tuples of list before the first one that does not unpack
BeforeBad(list) ==
    SubSeq(list, 1, Cardinality({i \in DOMAIN list : \A j \in 1..i : Unpacks(list[j])}))

ParFrame == UNCHANGED <<metadata_map, schema_log, players, files, writes, table, year_data>>

\* lines 39-44, one turn of the year loop: the list is fetched and its tuples are
\* unpacked into tasks; a tuple that does not unpack raises ValueError
ParListPlayers ==
    /\ pc = "Discovering"
    /\ year <= END_YEAR
    /\ \E list \in PlayerLists :
          /\ discovered' = discovered \o list
          /\ all_players' = all_players \o
                [i \in DOMAIN BeforeBad(list) |-> Task(list[i])]
          /\ IF \A i \in DOMAIN list : Unpacks(list[i])
             THEN year' = year + 1 /\ UNCHANGED <<pc, error>>
             ELSE Abort("unpack") /\ UNCHANGED year
    /\ UNCHANGED <<seen_players, unit>>
    /\ ParFrame

\* line 41: get_players_for_year(year) raises
ParListFails ==
    /\ pc = "Discovering"
    /\ year <= END_YEAR
    /\ Abort("listing")
    /\ UNCHANGED <<year, discovered, all_players, seen_players, unit>>
    /\ ParFrame

\* line 46: the year loop is exhausted
ParGathered ==
    /\ pc = "Discovering"
    /\ year > END_YEAR
    /\ pc' = "Dispatching"
    /\ UNCHANGED <<error, year, discovered, all_players, seen_players, unit>>
    /\ ParFrame

\* lines 52-53: the pool is created and pool.map hands it the tasks; every worker
\* process starts with its own copy of the parent's module state
ParStartPool ==
    /\ pc = "Dispatching"
    /\ pc' = "Draining"
    /\ seen_players' = [p \in {"main"} \cup Workers |-> seen_players["main"]]
    /\ unit' = [p \in {"main"} \cup Workers |-> Idle]
    /\ UNCHANGED <<error, year, discovered, all_players>>
    /\ ParFrame

\* pool.map returns: no task is left and no worker is inside one
PoolJoin ==
    /\ pc = "Draining"
    /\ all_players = <<>>
    /\ \A w \in Workers : Free(w)
    /\ pc' = "Done"
    /\ UNCHANGED <<error, year, discovered, all_players, seen_players, unit>>
    /\ ParFrame

NextPar ==
    \/ ParSeed \/ SeedFindsNone \/ SeedNoTable \/ SeedFetchFails
    \/ ParListPlayers \/ ParListFails \/ ParGathered
    \/ ParStartPool \/ PoolJoin

\* The steps of the workers are not part of NextPar: no run of main reaches
\* the pool with a task to hand out (ParPoolHasNoTask below).
SpecPar == InitPar /\ [][NextPar]_vars

\* in every run of main of scrape_parallel.py the pool is given the empty list
ParPoolHasNoTask == pc \in {"Dispatching", "Draining", "Done"} => all_players = <<>>

---------------------------------------------------------------------------
(* pool.map(scrape_wrapper, all_players) for a drawn task list: the state  *)
(* ParStartPool leaves, with tasks as line 44 builds them.                 *)

TaskLists == SeqsUpTo({<<pid, "name", "link", "metadata_map">> : pid \in Pids}, MaxTasks) \ {<<>>}

InitPool ==
    /\ pc = "Draining"
    /\ error = "none"
    /\ \E found \in SeedSamples :
          /\ metadata_map = MergeFound(found)
          /\ schema_log = MetaLines(found[Len(found)])
    /\ year = END_YEAR + 1
    /\ players = <<>>
    /\ \E tasks \in TaskLists :
          /\ all_players = tasks
          /\ discovered = [i \in DOMAIN tasks |-> Listed(tasks[i][1])]
    /\ seen_players = [p \in {"main"} \cup Workers |-> {}]
    /\ unit = [p \in {"main"} \cup Workers |-> Idle]
    /\ files = EmptyDict
    /\ writes = [pid \in Pids |-> 0]
    /\ table = NoTable
    /\ year_data = [found |-> FALSE, games |-> <<>>]

PoolFrame == UNCHANGED <<metadata_map, year, players, discovered, table, year_data>>

\* worker w may take the next task
CanTake(w) == pc = "Draining" /\ all_players # <<>> /\ Free(w)

Take == all_players' = Tail(all_players) /\ PoolFrame

WorkerSkipSeen == \E w \in Workers : CanTake(w) /\ UnitSeen(w, all_players[1][1]) /\ Take

WorkerProfileFails ==
    \E w \in Workers : CanTake(w) /\ UnitProfileFails(w, all_players[1][1]) /\ Take

WorkerNoLinks == \E w \in Workers : CanTake(w) /\ UnitNoLinks(w, all_players[1][1]) /\ Take

WorkerLinks ==
    \E w \in Workers :
        /\ CanTake(w)
        /\ \E link_years \in SUBSET LinkYears : UnitLinks(w, all_players[1][1], link_years)
        /\ Take

WorkerFrame == pc = "Draining" /\ UNCHANGED all_players /\ PoolFrame

WorkerYearFails == \E w \in Workers : WorkerFrame /\ UnitYearFails(w)

WorkerYear ==
    \E w \in Workers : WorkerFrame /\ \E doc \in UnitLogs \cup {NoTable} : UnitYear(w, doc)

WorkerFinish == \E w \in Workers : WorkerFrame /\ UnitFinish(w)

NextPool ==
    \/ WorkerSkipSeen \/ WorkerProfileFails \/ WorkerNoLinks \/ WorkerLinks
    \/ WorkerYearFails \/ WorkerYear \/ WorkerFinish
    \/ PoolJoin

SpecPool == InitPool /\ [][NextPool]_vars

---------------------------------------------------------------------------
(* scrape_gamelog on its own: one call on a drawn document against a       *)
(* registry returned by seeding.                                           *)

NoYearData == [found |-> FALSE, games |-> <<>>]

Quiet ==
    /\ error = "none"
    /\ year = START_YEAR
    /\ players = <<>>
    /\ discovered = <<>>
    /\ all_players = <<>>
    /\ seen_players = [p \in {"main"} |-> {}]
    /\ unit = [p \in {"main"} |-> Idle]
    /\ files = EmptyDict
    /\ writes = [pid \in Pids |-> 0]

InitGamelog ==
    /\ pc = "Normalizing"
    /\ \E found \in SeedSamples :
          /\ metadata_map = MergeFound(found)
          /\ schema_log = MetaLines(found[Len(found)])
    /\ table = NoTable
    /\ year_data = NoYearData
    /\ Quiet

\* scrape_gamelog(url, metadata_map) where the page at url holds doc
Normalize(doc) ==
    \E r \in {scrape_gamelog(doc, metadata_map)} :
       /\ table' = doc
       /\ year_data' = [found |-> r.found, games |-> r.games]
       /\ schema_log' = schema_log \o r.appended
       /\ pc' = "Normalized"
       /\ UNCHANGED <<error, metadata_map, year, players, discovered, all_players,
                      seen_players, unit, files, writes>>

GamelogCall ==
    /\ pc = "Normalizing"
    /\ \E l \in GamelogLayouts : \E r \in RowsFor(Len(l)) : \E b \in BodiesOf(r) :
          Normalize(Doc(l, b))

GamelogNoTable ==
    /\ pc = "Normalizing"
    /\ Normalize(NoTable)

NextGamelog == GamelogCall \/ GamelogNoTable

SpecGamelog == InitGamelog /\ [][NextGamelog]_vars

---------------------------------------------------------------------------
(* Properties of scrape_gamelog, stated on the document it was given       *)
(* (table), the registry (metadata_map) and what it returned (year_data).  *)

\* the canonical names of the registry snapshot
CanonicalNames == {metadata_map[k] : k \in DOMAIN metadata_map}

\* the (category, column) pairs of the table's data columns, by column index
TablePair(i) == <<CatAt(Expand(table.top), i), table.bottom[i].col>>

DataColumns == {i \in DOMAIN table.bottom : ~table.bottom[i].ranker}

\* the name under which the normalizer files the cells of data column i
ColumnName(i) ==
    IF TablePair(i) \in DOMAIN metadata_map THEN metadata_map[TablePair(i)]
    ELSE Fallback(TablePair(i)[1], TablePair(i)[2])

TableNames == {ColumnName(i) : i \in DataColumns}

\* the fallback names of the table's pairs that the registry does not know
TableFallbacks ==
    {Fallback(TablePair(i)[1], TablePair(i)[2]) :
        i \in {j \in DataColumns : TablePair(j) \notin DOMAIN metadata_map}}

GamesOut == {year_data.games[i] : i \in DOMAIN year_data.games}

\* C4: the stats of every emitted GameRecord hold every canonical name of
\* the registry snapshot, with value 0 for a name no column of the table
\* carries, and every other key of stats is the fallback name of a header
\* pair of the table that the registry does not know.
C4_SchemaComplete ==
    \A g \in GamesOut :
        /\ CanonicalNames \subseteq DOMAIN g.stats
        /\ \A u \in CanonicalNames \ TableNames : g.stats[u] = V_Int(0)
        /\ (DOMAIN g.stats) \ CanonicalNames \subseteq TableFallbacks

\* C4's case: a record was emitted for a table that lacks a registry column
\* and carries a column the registry does not know.
C4_Witness ==
    /\ pc = "Normalized"
    /\ year_data.games # <<>>
    /\ CanonicalNames \ TableNames # {}
    /\ \E g \in GamesOut : (DOMAIN g.stats) \ CanonicalNames # {}

\* the data columns whose cells are filed under the name Week
WeekColumns == {i \in DataColumns : ColumnName(i) = "Week"}

\* the text the row carries for Week: the cell of the last Week column it reaches
\* (body cell 1 is the row number, so data column i of the header is cell i)
RowSuppliesWeek(row) == \E i \in WeekColumns : i <= Len(row.cells)

WeekText(row) ==
    row.cells[CHOOSE i \in WeekColumns :
                 /\ i <= Len(row.cells)
                 /\ \A j \in WeekColumns : j <= Len(row.cells) => j <= i]

\* the text denotes a positive integer
PositiveText(x) == IsDigit(x) /\ NatOf(x) > 0

\* a row the claim allows to produce a GameRecord
Admissible(row) ==
    /\ row.cells # <<>>
    /\ IsDigit(row.cells[1])
    /\ RowSuppliesWeek(row)
    /\ PositiveText(WeekText(row))

\* C5: no GameRecord is emitted for a body row whose first cell is not a
\* nonnegative integer, nor for a row whose Week is missing, zero or not a
\* positive integer: there are no more records than admissible rows, every
\* record's week is a positive integer, and it is the week of such a row.
C5_RowFiltering ==
    /\ Len(year_data.games)
          <= Cardinality({i \in DOMAIN table.body : Admissible(table.body[i])})
    /\ \A g \in GamesOut :
          /\ g.week \in Nat \ {0}
          /\ \E i \in DOMAIN table.body :
                /\ Admissible(table.body[i])
                /\ g.week = NatOf(WeekText(table.body[i]))

\* C5's case: a numbered row whose Week is a negative integer, or a row
\* whose first cell is not a number, went through the normalizer and no
\* record came out.
C5_Witness ==
    /\ pc = "Normalized"
    /\ year_data.found
    /\ year_data.games = <<>>
    /\ \E i \in DOMAIN table.body :
          LET row == table.body[i]
          IN /\ ~row.thead
             /\ RowSuppliesWeek(row)
             /\ \/ IsDigit(row.cells[1]) /\ WeekText(row) = "-1"
                \/ row.cells[1] = "x" /\ WeekText(row) = "1"

\* the value, in thousandths, that stats holds under the registry's
\* canonical name of header (cat, col); 0 when the registry has no such header
UnderCanonical(stats, cat, col) ==
    IF <<cat, col>> \in DOMAIN metadata_map
    THEN StatMilli(stats, metadata_map[<<cat, col>>])
    ELSE 0

\* the claimed standard score of stats, in thousandths
ClaimedStd(stats) ==
    StdMilli(UnderCanonical(stats, "Passing", "Yds"), UnderCanonical(stats, "Passing", "TD"),
             UnderCanonical(stats, "Passing", "Int"), UnderCanonical(stats, "Rushing", "Yds"),
             UnderCanonical(stats, "Rushing", "TD"), UnderCanonical(stats, "Receiving", "Yds"),
             UnderCanonical(stats, "Receiving", "TD"), UnderCanonical(stats, "Scoring", "2PM"),
             UnderCanonical(stats, "Fumbles", "FL"))

\* C8: fantasy of every emitted GameRecord is the score of the record's own
\* stats, each input read under the registry's canonical name of its header:
\* standard = passYds/25 + passTD*4 - int*2 + rushYds/10 + rushTD*6
\* + recYds/10 + recTD*6 + twoPt*2 - fumblesLost*2, half_ppr = standard
\* + rec/2, ppr = standard + rec (compared after rounding to hundredths).
C8_ScoreOfOwnStats ==
    \A g \in GamesOut :
        LET std == ClaimedStd(g.stats)
            rec == UnderCanonical(g.stats, "Receiving", "Rec")
        IN /\ g.fantasy.standard = Round2(std)
           /\ g.fantasy.half_ppr = Round2(std + (rec \div 2))
           /\ g.fantasy.ppr = Round2(std + rec)

\* C10: date is the row's Date and opponent the row's Opp when the table
\* has such a column, and the empty string otherwise; team is the row's Tm,
\* else its Team, else the empty string; also when Date, Opp, Tm or Team are
\* canonical names of the registry that the table does not carry.
C10_FieldDefaults ==
    \A g \in GamesOut :
        /\ "Date" \in TableNames => g.date = g.stats["Date"]
        /\ "Date" \notin TableNames => g.date = V_Str("")
        /\ "Opp" \in TableNames => g.opponent = g.stats["Opp"]
        /\ "Opp" \notin TableNames => g.opponent = V_Str("")
        /\ ("Tm" \notin TableNames /\ "Team" \notin TableNames) => g.team = V_Str("")

---------------------------------------------------------------------------
(* Properties of the registry and of the runs.                             *)

\* C3: in the registry returned by seeding, no two distinct (category,
\* column) keys whose categories differ have the same canonical name.
C3_UniqueNames ==
    \A k1 \in DOMAIN metadata_map : \A k2 \in DOMAIN metadata_map :
        (k1 # k2 /\ k1[1] # k2[1]) => metadata_map[k1] # metadata_map[k2]

\* the (category, column) pair of a line of the schema log
LineKey(line) == <<line.cat, line.col>>

\* C2: a (category, column) pair that normalization calls met while it was
\* absent from the seeded registry has exactly one entry in the registry and
\* in the schema log: every line of the log names a pair of the registry, and
\* no pair is named by two lines.
C2_OneEntryPerPair ==
    \A i \in DOMAIN schema_log :
        /\ LineKey(schema_log[i]) \in DOMAIN metadata_map
        /\ \A j \in DOMAIN schema_log :
              LineKey(schema_log[j]) = LineKey(schema_log[i]) => j = i

\* C6: a fetch or parse failure inside one player's unit never aborts the
\* run: no run ends on an exception raised inside a unit.
C6_UnitFailureIsolated == ~(pc = "Aborted" /\ error = "unit")

\* C7: when a unit that completed some years fails on the fetch of a later
\* year's game log, a PlayerRecord with exactly the completed years is
\* persisted for that player.
C7_PartialRecordPersisted ==
    \A p \in DOMAIN unit :
        (unit[p].st = "failed" /\ DOMAIN unit[p].years # {})
            => /\ unit[p].id \in DOMAIN files
               /\ files[unit[p].id] = PlayerData(unit[p])

C9_RunReachesDone ==
    /\ pc = "Aborted" => error \in {"seeding", "listing"}
    /\ pc = "Dispatching" =>
          /\ Len(all_players) = Len(discovered)
          /\ \A i \in DOMAIN discovered : all_players[i][1] = discovered[i][1]

===========================================================================
